---- MODULE Spec2Model ----
(***************************************************************************)
(* Model of the memoize package: memoize_function and memoize_method       *)
(* (src/memoize/memoize.py), the Memparams data descriptor and the         *)
(* mutation-tracking storage class it derives (src/memoize/memparams.py).  *)
(*                                                                         *)
(* The class under study carries two Memparams descriptors, p and q, both  *)
(* declared Memparams(set, "param"), and one memoized method               *)
(*     def add(self, addend): return len(self.p) + addend                  *)
(* after the AddToThree example of the memoize_method docstring.  The      *)
(* memoized free function is                                               *)
(*     def f(a, b=1): return b // a                                        *)
(* Argument values are small integers, None (hashable, arithmetic on it    *)
(* raises TypeError) and an empty list (unhashable, counted as 0).         *)
(***************************************************************************)
EXTENDS Integers, FiniteSets, Sequences, TLC

\* ---------------------------------------------------------------- bounds
NumObjs == 3
MaxElem == 1
MaxArg == 1
MaxAddend == 0
NumCallObjs == 2

Objs == 1..NumObjs
\* The instances the call-centred specification exercises.
CallObjs == 1..NumCallObjs
Elems == 1..MaxElem
SlotVals == SUBSET Elems

\* Argument values: small ints, None and the empty list [].  f is called
\* with ints up to MaxArg, add with ints up to MaxAddend.
NoneArg == MaxArg + MaxAddend + 1
ListArg == NoneArg + 1
ArgVals == (0..MaxArg) \cup {NoneArg, ListArg}
Addends == (0..MaxAddend) \cup {NoneArg, ListArg}

\* The interpreter's recursion limit.  It is far above the depth of any
\* cascade over an acyclic friend graph, which needs at most one frame per
\* instance; the model keeps that relation.
RecursionLimit == NumObjs + 1

EmptyMap == [k \in {} |-> 0]

NoExc == "none"

\* hash(value): ints and None hash, a list does not.
Hashable(v) == v # ListArg

\* The number an argument stands for in the functions under test.
Num(v) == IF v = ListArg THEN 0 ELSE v

\* ------------------------------------------------------------ descriptors
Descs == {"p", "q"}

Base(d) == "set"

Name(d) == "param"

\* A storage key that is the descriptor's own attribute name: every
\* descriptor gets a location of its own.
DescKeyPerDescriptor(d) == <<Base(d), d>>

\* Memparams.__init__: self.key = (base, name)
DescKey(d) == <<Base(d), Name(d)>>

\* The descriptor object itself, used as a dict key: it equals no tuple.
DescSelf(d) == <<"Memparams", d>>

\* Mutators.names
MutatorNames ==
  { "__setattr__", "__delattr__", "__setitem__", "__delitem__",
    "__setslice__", "__delslice__", "__iadd__", "__isub__", "__imul__",
    "__imatmul__", "__idiv__", "__itruediv__", "__ifloordiv__", "__imod__",
    "__ipow__", "__ilshift__", "__irshift__", "__iand__", "__ixor__",
    "__ior__", "append", "appendleft", "clear", "discard", "extend",
    "extendleft", "insert", "pop", "popleft", "popitem", "remove",
    "reverse", "rotate", "setdefault", "sort", "subtract", "update" }

\* The callable attributes of the base type set that the model exercises.
BaseMethods(base) ==
  IF base = "set"
  THEN { "add", "discard", "remove", "clear", "__len__" }
  ELSE {}

\* A loop that wraps every callable attribute of the storage class.
WrappedEveryMethod(base, name) == name \in BaseMethods(base)

\* The loop closing _memparamstorage: a method of the storage class is
\* replaced by a cache-clearing wrapper iff its name is in Mutators.names.
Wrapped(base, name) == name \in MutatorNames /\ name \in BaseMethods(base)

\* What a method of the base type does to a set value: [exc, val].
BaseApply(name, val, e) ==
  CASE name = "add"     -> [exc |-> NoExc, val |-> val \cup {e}]
    [] name = "discard" -> [exc |-> NoExc, val |-> val \ {e}]
    [] name = "remove"  -> IF e \in val
                           THEN [exc |-> NoExc, val |-> val \ {e}]
                           ELSE [exc |-> "KeyError", val |-> val]
    [] name = "clear"   -> [exc |-> NoExc, val |-> {}]
    [] OTHER            -> [exc |-> NoExc, val |-> val]

VARIABLES
  storage,    \* storage[o]: the _memparams_storage attribute of instance o
  cache,      \* cache[o]: the _memoize_method_cache attribute of o
  friends,    \* friends[o]: the memoize_friends attribute of o
  fcache,     \* the _memoize_function_cache of the memoized function f
  computed,   \* computed[o][k]: results add computed for k since o's last clear
  fcomputed,  \* fcomputed[k]: results f computed for k since the last clear
  fdropped,   \* keys the last f.clear_cache() dropped, not called since
  cleared,    \* cleared[o]: times o's cache was cleared by the last operation
  last,       \* the last operation, its arguments and its outcome
  held        \* the set object v a caller keeps a reference to

vars == <<storage, cache, friends, fcache, computed, fcomputed, fdropped, cleared, last,
          held>>

\* ------------------------------------------------------------------ keys
\* memoize_method.__call__: callargs without the receiver, under f.__name__
MethodKey(x) == <<"add", [addend |-> x]>>

MKeys == { MethodKey(x) : x \in Addends }

\* _HashableDict.__hash__: hashes the values of the binding
KeyHashable(binding) == \A n \in DOMAIN binding : Hashable(binding[n])

\* The underlying method add(self, addend) read against the slot storage.
MethodOutcome(st, x) ==
  IF ~st.has \/ DescKey("p") \notin DOMAIN st.map
  THEN [exc |-> "AttributeError", val |-> 0]
  ELSE IF x = NoneArg
  THEN [exc |-> "TypeError", val |-> 0]
  ELSE [exc |-> NoExc, val |-> Cardinality(st.map[DescKey("p")]) + Num(x)]

Put(m, k, v) == [j \in DOMAIN m \cup {k} |-> IF j = k THEN v ELSE m[j]]

ZeroCounts == [o \in Objs |-> 0]

\* The record of an operation: what was called, on which instance, with
\* which arguments, how it ended (exc, val) and how often it invoked the
\* underlying function (n).
Op(op, obj, arg, arg2, name, out, n) ==
  [op |-> op, obj |-> obj, arg |-> arg, arg2 |-> arg2, name |-> name,
   exc |-> out.exc, val |-> out.val, n |-> n, again |-> FALSE]

\* ------------------------------------------------------ memoize_function
\* A call of f: positional arguments and keyword arguments.
FnCalls ==
  { [args |-> <<a>>, kw |-> EmptyMap] : a \in ArgVals } \cup
  { [args |-> <<a, b>>, kw |-> EmptyMap] : a \in ArgVals, b \in ArgVals } \cup
  { [args |-> <<a>>, kw |-> [n \in {"b"} |-> b]] : a \in ArgVals, b \in ArgVals } \cup
  { [args |-> <<>>, kw |-> [n \in {"a"} |-> a]] : a \in ArgVals } \cup
  { [args |-> <<>>, kw |-> [a |-> a, b |-> b]] : a \in ArgVals, b \in ArgVals }

\* A binding that looks at the positional arguments only for b, and takes
\* the default when b is passed by keyword.
GetCallArgsIgnoresKeyword(c) ==
  [ a |-> IF Len(c.args) >= 1 THEN c.args[1] ELSE c.kw["a"],
    b |-> IF Len(c.args) >= 2 THEN c.args[2] ELSE 1 ]

\* inspect.getcallargs(f, *args, **kwargs) for f(a, b=1): the binding of the
\* parameter names, positionals first, then keywords, then defaults.
GetCallArgs(c) ==
  [ a |-> IF Len(c.args) >= 1 THEN c.args[1] ELSE c.kw["a"],
    b |-> IF Len(c.args) >= 2 THEN c.args[2]
          ELSE IF "b" \in DOMAIN c.kw THEN c.kw["b"] ELSE 1 ]

FKeys == [a : ArgVals, b : ArgVals]

\* The underlying f(a, b=1) = b // a.
FnOutcome(bd) ==
  IF bd.a = NoneArg \/ bd.b = NoneArg
  THEN [exc |-> "TypeError", val |-> 0]
  ELSE IF Num(bd.a) = 0
  THEN [exc |-> "ZeroDivisionError", val |-> 0]
  ELSE [exc |-> NoExc, val |-> Num(bd.b) \div Num(bd.a)]

\* A wrapper that enters the key before it computes, and leaves the entry
\* behind when the computation raises.
FunctionCallPlaceholder(map, c) ==
  LET key == GetCallArgs(c)
      out == FnOutcome(key)
  IN  IF ~KeyHashable(key)
      THEN [map |-> map, out |-> out, n |-> 1]
      ELSE IF key \in DOMAIN map
      THEN [map |-> map, out |-> [exc |-> NoExc, val |-> map[key]], n |-> 0]
      ELSE [map |-> Put(map, key, out.val), out |-> out,
            n |-> IF out.exc = "TypeError" THEN 2 ELSE 1]

\* memoize_function.__call__: [map, out, n] with n the invocations of f.
FunctionCall(map, c) ==
  LET key == GetCallArgs(c)
      out == FnOutcome(key)
  IN  IF ~KeyHashable(key)
      THEN \* hash(key) raises TypeError inside the try: f is called directly
           [map |-> map, out |-> out, n |-> 1]
      ELSE IF key \in DOMAIN map
      THEN [map |-> map, out |-> [exc |-> NoExc, val |-> map[key]], n |-> 0]
      ELSE IF out.exc = NoExc
      THEN [map |-> Put(map, key, out.val), out |-> out, n |-> 1]
      ELSE IF out.exc = "TypeError"
      THEN \* f's own TypeError is caught by the same handler: f runs again
           [map |-> map, out |-> out, n |-> 2]
      ELSE [map |-> map, out |-> out, n |-> 1]

\* A clear_cache that leaves the cache as it is.
FunctionClearNothing(map) == map

\* memoize_function.clear_cache
FunctionClear(map) == EmptyMap

\* -------------------------------------------------------- memoize_method
\* A __call__ that computes on a miss and forgets to store the result.
MethodCallNoStore(c, st, x) ==
  LET key == MethodKey(x)
      c1 == IF c.has THEN c ELSE [has |-> TRUE, map |-> EmptyMap]
      out == MethodOutcome(st, x)
  IN  IF KeyHashable(key[2]) /\ key \in DOMAIN c1.map
      THEN [cache |-> c1, out |-> [exc |-> NoExc, val |-> c1.map[key]], n |-> 0]
      ELSE [cache |-> c1, out |-> out,
            n |-> IF KeyHashable(key[2]) /\ out.exc = "TypeError" THEN 2 ELSE 1]

\* A __call__ without the `except TypeError` clause: the TypeError of
\* hashing the key reaches the caller.
MethodCallNoExcept(c, st, x) ==
  LET key == MethodKey(x)
      c1 == IF c.has THEN c ELSE [has |-> TRUE, map |-> EmptyMap]
      out == MethodOutcome(st, x)
  IN  IF ~KeyHashable(key[2])
      THEN [cache |-> c1, out |-> [exc |-> "TypeError", val |-> 0], n |-> 0]
      ELSE IF key \in DOMAIN c1.map
      THEN [cache |-> c1, out |-> [exc |-> NoExc, val |-> c1.map[key]], n |-> 0]
      ELSE IF out.exc = NoExc
      THEN [cache |-> [c1 EXCEPT !.map = Put(@, key, out.val)], out |-> out, n |-> 1]
      ELSE [cache |-> c1, out |-> out, n |-> 1]

\* A __call__ whose fallback for an unhashable key throws the cache of the
\* receiver away.
MethodCallUnhashableResets(c, st, x) ==
  LET key == MethodKey(x)
      c1 == IF c.has THEN c ELSE [has |-> TRUE, map |-> EmptyMap]
      out == MethodOutcome(st, x)
  IN  IF ~KeyHashable(key[2])
      THEN [cache |-> [has |-> TRUE, map |-> EmptyMap], out |-> out, n |-> 1]
      ELSE IF key \in DOMAIN c1.map
      THEN [cache |-> c1, out |-> [exc |-> NoExc, val |-> c1.map[key]], n |-> 0]
      ELSE IF out.exc = NoExc
      THEN [cache |-> [c1 EXCEPT !.map = Put(@, key, out.val)], out |-> out, n |-> 1]
      ELSE IF out.exc = "TypeError"
      THEN [cache |-> c1, out |-> out, n |-> 2]
      ELSE [cache |-> c1, out |-> out, n |-> 1]

\* memoize_method.__call__(obj, x) on the cache attribute c of obj, with st
\* the slot storage of obj: [cache, out, n].
MethodCall(c, st, x) ==
  LET key == MethodKey(x)
      c1 == IF c.has THEN c ELSE [has |-> TRUE, map |-> EmptyMap]
      out == MethodOutcome(st, x)
  IN  IF ~KeyHashable(key[2])
      THEN [cache |-> c1, out |-> out, n |-> 1]
      ELSE IF key \in DOMAIN c1.map
      THEN [cache |-> c1, out |-> [exc |-> NoExc, val |-> c1.map[key]], n |-> 0]
      ELSE IF out.exc = NoExc
      THEN [cache |-> [c1 EXCEPT !.map = Put(@, key, out.val)], out |-> out, n |-> 1]
      ELSE IF out.exc = "TypeError"
      THEN [cache |-> c1, out |-> out, n |-> 2]
      ELSE [cache |-> c1, out |-> out, n |-> 1]

\* The memoized methods of a subclass Sub(Cls) that overrides add:
\*     def add(self, addend): return super(Sub, self).add(addend) + 1
\* "Cls.add" is the overridden function, "Sub.add" the overriding one.
Methods == { "Cls.add", "Sub.add" }

\* f.__name__
FuncName(m) == "add"

\* The cache key memoize_method.__call__ builds for method m:
\* (f.__name__, _HashableDict(callargs))
MethodKeyOf(m, x) == <<FuncName(m), [addend |-> x]>>

\* The underlying function of method m read against the slot storage.
UnderlyingOutcome(m, st, x) ==
  LET base == MethodOutcome(st, x)
  IN  IF m = "Sub.add" /\ base.exc = NoExc
      THEN [exc |-> NoExc, val |-> base.val + 1]
      ELSE base

\* memoize_method.__call__(obj, x) of Sub.add on the cache attribute c: the
\* underlying function calls super(Sub, self).add(x), a bound call of the
\* memoized Cls.add on the same instance and the same cache dict.
OverrideMethodCall(c, st, x) ==
  LET key == MethodKeyOf("Sub.add", x)
      c1 == IF c.has THEN c ELSE [has |-> TRUE, map |-> EmptyMap]
      inner == MethodCall(c1, st, x)
      out == IF inner.out.exc = NoExc
             THEN [exc |-> NoExc, val |-> inner.out.val + 1]
             ELSE inner.out
  IN  IF ~KeyHashable(key[2])
      THEN [cache |-> inner.cache, out |-> out, n |-> 1]
      ELSE IF key \in DOMAIN c1.map
      THEN [cache |-> c1, out |-> [exc |-> NoExc, val |-> c1.map[key]], n |-> 0]
      ELSE IF out.exc = NoExc
      THEN [cache |-> [inner.cache EXCEPT !.map = Put(@, key, out.val)],
            out |-> out, n |-> 1]
      ELSE IF out.exc = "TypeError"
      THEN [cache |-> inner.cache, out |-> out, n |-> 2]
      ELSE [cache |-> inner.cache, out |-> out, n |-> 1]

\* A __get__ that hands out the caching wrapper on the class as well.
GetAlwaysCaching(bound) == TRUE

\* memoize_method.__get__(obj, otype): TRUE when the attribute access yields
\* the caching partial(self, obj), FALSE when it yields the plain self.f.
GetIsCaching(bound) == bound

\* The orders in which a friend set may be iterated.
Orders == { s \in [1..NumObjs -> Objs] : \A i, j \in 1..NumObjs : s[i] = s[j] => i = j }

RECURSIVE ClearCache(_, _, _, _, _)
RECURSIVE ClearFriends(_, _, _, _, _, _)
\* memoize_method.clear_cache(obj) at recursion depth `depth`, on
\* st = [cache, cleared, exc], with friend graph fr.
ClearCache(obj, st, depth, fr, ord) ==
  IF depth > RecursionLimit
  THEN [st EXCEPT !.exc = "RecursionError"]
  ELSE LET st1 == IF st.cache[obj].has
                  THEN [st EXCEPT !.cache[obj].map = EmptyMap,
                                  !.cleared[obj] = @ + 1]
                  ELSE st
       IN  IF fr[obj].has THEN ClearFriends(obj, 1, st1, depth, fr, ord) ELSE st1

\* A loop that clears the caches of the friends themselves and does not
\* call clear_cache on them.
ClearFriendsShallow(obj, i, st, depth, fr, ord) ==
  [st EXCEPT
     !.cache = [o \in Objs |->
                  IF o \in fr[obj].set \ {obj} /\ @[o].has
                  THEN [has |-> TRUE, map |-> EmptyMap] ELSE @[o]],
     !.cleared = [o \in Objs |->
                    IF o \in fr[obj].set \ {obj} /\ st.cache[o].has
                    THEN @[o] + 1 ELSE @[o]]]

\* The loop `for friend in getattr(obj, cls.friend_list_name)`, from the
\* i-th position of the iteration order on.
ClearFriends(obj, i, st, depth, fr, ord) ==
  IF st.exc # NoExc \/ i > NumObjs
  THEN st
  ELSE LET friend == ord[i]
           st1 == IF friend \in fr[obj].set /\ friend # obj
                  THEN ClearCache(friend, st, depth + 1, fr, ord)
                  ELSE st
       IN  ClearFriends(obj, i + 1, st1, depth, fr, ord)

\* The outcomes of clear_cache(obj) called from outside, one per iteration
\* order of the friend sets.
Cascade(obj, c) ==
  { ClearCache(obj, [cache |-> c, cleared |-> ZeroCounts, exc |-> NoExc], 1, friends, ord) :
      ord \in Orders }

\* The counters of the objects whose cache was cleared start again.
ResetComputed(cmp, clr) ==
  [o \in Objs |-> IF clr[o] > 0 THEN [k \in MKeys |-> 0] ELSE cmp[o]]

NoOut == [exc |-> NoExc, val |-> 0]

Raise(e) == [exc |-> e, val |-> 0]

\* obj.add(x): bound call through partial(self, obj)
BoundCall(o, x) ==
  LET r == IF GetIsCaching(TRUE)
           THEN MethodCall(cache[o], storage[o], x)
           ELSE [cache |-> cache[o], out |-> MethodOutcome(storage[o], x), n |-> 1]
      key == MethodKey(x)
  IN  /\ cache' = [cache EXCEPT ![o] = r.cache]
      /\ computed' = IF KeyHashable(key[2]) /\ r.out.exc = NoExc /\ r.n > 0
                     THEN [computed EXCEPT ![o][key] = IF @ < 2 THEN @ + 1 ELSE @]
                     ELSE computed
      /\ cleared' = ZeroCounts
      /\ last' = Op("call", o, x, 0, "add", r.out, r.n)
      /\ UNCHANGED <<storage, friends, fcache, fcomputed, fdropped, held>>

\* Cls.add(obj, x): the method fetched from the class
UnboundCall(o, x) ==
  LET r == IF GetIsCaching(FALSE)
           THEN MethodCall(cache[o], storage[o], x)
           ELSE [cache |-> cache[o], out |-> MethodOutcome(storage[o], x), n |-> 1]
  IN  /\ cache' = [cache EXCEPT ![o] = r.cache]
      /\ cleared' = ZeroCounts
      /\ last' = Op("unbound", o, x, 0, "add", r.out, r.n)
      /\ UNCHANGED <<storage, friends, fcache, computed, fcomputed, fdropped, held>>

\* obj.add(x) on an instance of Sub: bound call of the overriding method
OverrideCall(o, x) ==
  LET r == OverrideMethodCall(cache[o], storage[o], x)
  IN  /\ cache' = [cache EXCEPT ![o] = r.cache]
      /\ cleared' = ZeroCounts
      /\ last' = Op("override", o, x, 0, "Sub.add", r.out, r.n)
      /\ UNCHANGED <<storage, friends, fcache, computed, fcomputed, fdropped, held>>

\* super(Sub, obj).add(x): bound call of the overridden method
SuperCall(o, x) ==
  LET r == MethodCall(cache[o], storage[o], x)
  IN  /\ cache' = [cache EXCEPT ![o] = r.cache]
      /\ cleared' = ZeroCounts
      /\ last' = Op("super", o, x, 0, "Cls.add", r.out, r.n)
      /\ UNCHANGED <<storage, friends, fcache, computed, fcomputed, fdropped, held>>

\* memoize_method.clear_cache(obj), called directly
ClearCacheOp(o) ==
  \E r \in Cascade(o, cache) :
        /\ cache' = r.cache
        /\ cleared' = r.cleared
        /\ computed' = ResetComputed(computed, r.cleared)
        /\ last' = Op("clear", o, 0, 0, "", Raise(r.exc), 0)
        /\ UNCHANGED <<storage, friends, fcache, fcomputed, fdropped, held>>

\* A storage constructor that hands back the object passed in.
MemparamStorageSameObject(base, value) == [val |-> value, fresh |-> FALSE]

\* memparamstorage(base, obj, value): __new__ makes a new object of the
\* storage class and base.__init__(self, value) fills it with the elements
\* of value.  fresh: the result is another object than value.
MemparamStorage(base, value) == [val |-> { e \in Elems : e \in value }, fresh |-> TRUE]

\* Memparams.__set__(obj, value) through descriptor d
SlotSet(o, d, v) ==
  \E r \in Cascade(o, cache) :
        /\ storage' = [storage EXCEPT ![o] =
                         [has |-> TRUE,
                          map |-> Put(@.map, DescKey(d), MemparamStorage(Base(d), v).val)]]
        /\ held' = [held EXCEPT !.given = @ \ {o}, !.same = @ \ {o}]
        /\ cache' = r.cache
        /\ cleared' = r.cleared
        /\ computed' = ResetComputed(computed, r.cleared)
        /\ last' = Op("set", o, 0, 0, d, Raise(r.exc), 0)
        /\ UNCHANGED <<friends, fcache, fcomputed, fdropped>>

\* obj.<d> = v, with v the object the caller keeps: Memparams.__set__
SlotSetHeld(o, d) ==
  \E r \in Cascade(o, cache) :
    LET w == MemparamStorage(Base(d), held.val)
    IN  /\ storage' = [storage EXCEPT ![o] =
                         [has |-> TRUE, map |-> Put(@.map, DescKey(d), w.val)]]
        /\ held' = [held EXCEPT !.given = @ \cup {o},
                                !.same = IF w.fresh THEN @ \ {o} ELSE @ \cup {o}]
        /\ cache' = r.cache
        /\ cleared' = r.cleared
        /\ computed' = ResetComputed(computed, r.cleared)
        /\ last' = Op("assign", o, 0, 0, d, Raise(r.exc), 0)
        /\ UNCHANGED <<friends, fcache, fcomputed, fdropped>>

\* The methods of the caller's own set object that the model calls.
HeldOps == { "add", "discard" }

\* v.<name>(e) through the caller's reference: a method of the plain set.
\* A slot that stores this very object changes with it.
HeldMutate(name, e) ==
  LET m == BaseApply(name, held.val, e)
  IN  /\ held' = [held EXCEPT !.val = m.val]
      /\ storage' = [o \in Objs |->
                       IF o \in held.same
                       THEN [storage[o] EXCEPT !.map[DescKey("p")] = m.val]
                       ELSE storage[o]]
      /\ cleared' = ZeroCounts
      /\ last' = Op("mutate", 0, e, 0, name, Raise(m.exc), 0)
      /\ UNCHANGED <<cache, friends, fcache, computed, fcomputed, fdropped>>

\* Memparams.__get__(obj) through descriptor d, on the slot storage st of obj
SlotGet(st, d) ==
  IF st.has /\ DescKey(d) \in DOMAIN st.map
  THEN [exc |-> NoExc, val |-> st.map[DescKey(d)]]
  ELSE [exc |-> "AttributeError", val |-> {}]

\* The dict key Memparams.__delete__ removes from the storage: `del storage[self]`
DeleteKey(d) == DescSelf(d)

\* Memparams.__delete__(obj) through descriptor d
SlotDelete(o, d) ==
  IF storage[o].has /\ DeleteKey(d) \notin DOMAIN storage[o].map
  THEN \* del storage[...] raises KeyError and the method ends there
       /\ cleared' = ZeroCounts
       /\ last' = Op("delete", o, 0, 0, d, Raise("KeyError"), 0)
       /\ UNCHANGED <<storage, cache, friends, fcache, computed, fcomputed, fdropped, held>>
  ELSE \E r \in Cascade(o, cache) :
         LET rest == [k \in DOMAIN storage[o].map \ {DeleteKey(d)} |-> storage[o].map[k]]
         IN  /\ storage' = [storage EXCEPT ![o] =
                              IF storage[o].has
                              THEN [has |-> DOMAIN rest # {}, map |-> rest]
                              ELSE @]
             /\ cache' = r.cache
             /\ cleared' = r.cleared
             /\ computed' = ResetComputed(computed, r.cleared)
             /\ last' = Op("delete", o, 0, 0, d, Raise(r.exc), 0)
             /\ UNCHANGED <<friends, fcache, fcomputed, fdropped, held>>

\* The methods of the stored value that the model calls.
ProxyOps == { "add", "discard", "remove", "clear", "__len__" }

\* A wrapper that clears the cache before it calls the mutator, so that a
\* mutator that raises has cleared the cache all the same.
ProxyCallClearFirst(o, d, name, e) ==
  /\ storage[o].has
  /\ DescKey(d) \in DOMAIN storage[o].map
  /\ name \in BaseMethods(Base(d))
  /\ LET m == BaseApply(name, storage[o].map[DescKey(d)], e)
     IN  IF Wrapped(Base(d), name)
         THEN \E r \in Cascade(o, cache) :
                    /\ storage' = [storage EXCEPT ![o].map[DescKey(d)] = m.val]
                    /\ cache' = r.cache
                    /\ cleared' = r.cleared
                    /\ computed' = ResetComputed(computed, r.cleared)
                    /\ last' = Op("proxy", o, e, 0, name,
                                  Raise(IF r.exc # NoExc THEN r.exc ELSE m.exc), 0)
                    /\ UNCHANGED <<friends, fcache, fcomputed, fdropped, held>>
         ELSE /\ storage' = [storage EXCEPT ![o].map[DescKey(d)] = m.val]
              /\ cleared' = ZeroCounts
              /\ last' = Op("proxy", o, e, 0, name, Raise(m.exc), 0)
              /\ UNCHANGED <<cache, friends, fcache, computed, fcomputed, fdropped, held>>

\* obj.<d>.<name>(e): a method call on the stored _MemparamStorage value;
\* a wrapped method is new_mutator of _make_new_mutator.
ProxyCall(o, d, name, e) ==
  /\ storage[o].has
  /\ DescKey(d) \in DOMAIN storage[o].map
  /\ name \in BaseMethods(Base(d))
  /\ LET m == BaseApply(name, storage[o].map[DescKey(d)], e)
     IN  IF m.exc # NoExc
         THEN /\ cleared' = ZeroCounts
              /\ last' = Op("proxy", o, e, 0, name, Raise(m.exc), 0)
              /\ UNCHANGED <<storage, cache, friends, fcache, computed, fcomputed, fdropped, held>>
         ELSE IF Wrapped(Base(d), name)
         THEN \E r \in Cascade(o, cache) :
                    /\ storage' = [storage EXCEPT ![o].map[DescKey(d)] = m.val]
                    /\ cache' = r.cache
                    /\ cleared' = r.cleared
                    /\ computed' = ResetComputed(computed, r.cleared)
                    /\ last' = Op("proxy", o, e, 0, name, Raise(r.exc), 0)
                    /\ UNCHANGED <<friends, fcache, fcomputed, fdropped, held>>
         ELSE /\ storage' = [storage EXCEPT ![o].map[DescKey(d)] = m.val]
              /\ cleared' = ZeroCounts
              /\ last' = Op("proxy", o, e, 0, name, NoOut, 0)
              /\ UNCHANGED <<cache, friends, fcache, computed, fcomputed, fdropped, held>>

\* _MemparamStorage.__reduce__ of the value stored for obj:
\* (memparamstorage, (self.base, self.obj, self.base(self))), with
\* self.base(self) a plain base-type object holding the elements of the value.
Reduce(base, obj, val) ==
  [callable |-> "memparamstorage",
   args |-> [base |-> base, obj |-> obj, value |-> { e \in Elems : e \in val }]]

\* copy.copy(obj.<d>) or pickle.dumps(obj.<d>): both go through __reduce__.
\* The operation record keeps the instance the reduce value refers to.
ProxyReduce(o, d) ==
  /\ SlotGet(storage[o], d).exc = NoExc
  /\ LET red == Reduce(Base(d), o, SlotGet(storage[o], d).val)
     IN  last' = Op("reduce", o, 0, red.args.obj, d, NoOut, 0)
  /\ cleared' = ZeroCounts
  /\ UNCHANGED <<storage, cache, friends, fcache, computed, fcomputed, fdropped, held>>

\* A registration that enters the edge in both directions.
RegisterFriendSymmetric(host, friend) ==
  /\ friends' = IF friend # host
                THEN [friends EXCEPT
                        ![host] = [has |-> TRUE, set |-> @.set \cup {friend}],
                        ![friend] = [has |-> TRUE, set |-> @.set \cup {host}]]
                ELSE friends
  /\ cleared' = ZeroCounts
  /\ last' = Op("register", host, friend, 0, "", NoOut, 0)
  /\ UNCHANGED <<storage, cache, fcache, computed, fcomputed, fdropped, held>>

\* memoize_method.register_friend(host, friend)
RegisterFriend(host, friend) ==
  /\ friends' = IF friend # host
                THEN [friends EXCEPT ![host] =
                        [has |-> TRUE, set |-> @.set \cup {friend}]]
                ELSE friends
  /\ cleared' = ZeroCounts
  /\ last' = Op("register", host, friend, 0, "", NoOut, 0)
  /\ UNCHANGED <<storage, cache, fcache, computed, fcomputed, fdropped, held>>

\* memoize_method.unregister_friend(host, friend)
UnregisterFriend(host, friend) ==
  LET missing == friend # host /\ friends[host].has /\ friend \notin friends[host].set
  IN  /\ friends' = IF friend # host /\ friends[host].has /\ ~missing
                    THEN [friends EXCEPT ![host].set = @ \ {friend}]
                    ELSE friends
      /\ cleared' = ZeroCounts
      /\ last' = Op("unregister", host, friend, 0, "",
                    IF missing THEN Raise("KeyError") ELSE NoOut, 0)
      /\ UNCHANGED <<storage, cache, fcache, computed, fcomputed, fdropped, held>>

\* f(*c.args, **c.kw) through the memoize_function wrapper
FnCall(c) ==
  LET r == FunctionCall(fcache, c)
      key == GetCallArgs(c)
  IN  /\ fcache' = r.map
      /\ fcomputed' = IF KeyHashable(key) /\ r.out.exc = NoExc /\ r.n > 0
                      THEN [fcomputed EXCEPT ![key] = IF @ < 2 THEN @ + 1 ELSE @]
                      ELSE fcomputed
      /\ fdropped' = fdropped \ {key}
      /\ cleared' = ZeroCounts
      /\ last' = [Op("fcall", 0, key.a, key.b, "f", r.out, r.n)
                    EXCEPT !.again = key \in fdropped]
      /\ UNCHANGED <<storage, cache, friends, computed, held>>

\* f.clear_cache()
FnClear ==
  /\ fcache' = FunctionClear(fcache)
  /\ fcomputed' = [k \in FKeys |-> 0]
  /\ fdropped' = DOMAIN fcache
  /\ cleared' = ZeroCounts
  /\ last' = Op("fclear", 0, 0, 0, "f", NoOut, 0)
  /\ UNCHANGED <<storage, cache, friends, computed, held>>


Init ==
  /\ storage = [o \in Objs |-> [has |-> FALSE, map |-> EmptyMap]]
  /\ cache = [o \in Objs |-> [has |-> FALSE, map |-> EmptyMap]]
  /\ friends = [o \in Objs |-> [has |-> FALSE, set |-> {}]]
  /\ fcache = EmptyMap
  /\ computed = [o \in Objs |-> [k \in MKeys |-> 0]]
  /\ fcomputed = [k \in FKeys |-> 0]
  /\ fdropped = {}
  /\ cleared = ZeroCounts
  /\ last = Op("init", 0, 0, 0, "", NoOut, 0)
  /\ held = [val |-> {}, given |-> {}, same |-> {}]

\* ------------------------------------------------------------ the claims
\* The friends clear_cache(o) recurses into.
Succ(o) == IF friends[o].has THEN friends[o].set \ {o} ELSE {}

RECURSIVE ReachN(_, _)
ReachN(S, n) ==
  IF n = 0 THEN S ELSE ReachN(S \cup UNION { Succ(r) : r \in S }, n - 1)

\* The instances reachable from o over one or more friend edges.
Reach(o) == ReachN(Succ(o), NumObjs)

\* No cycle of friend edges can be entered from o.
AcyclicFrom(o) == o \notin Reach(o) /\ \A r \in Reach(o) : r \notin Reach(r)

IsEmptyCache(o) == cache[o].map = EmptyMap

LastOutcome == [exc |-> last.exc, val |-> last.val]

LastFnKey == [a |-> last.arg, b |-> last.arg2]

\* C1: after any sequence of slot writes, in-place mutations through the
\* stored proxy and bound calls, a bound call that returns a value returns
\* the value the underlying method computes from the current slot values.
C1_BoundCallIsFresh ==
  (last.op = "call" /\ last.exc = NoExc)
    => LastOutcome = MethodOutcome(storage[last.obj], last.arg)

\* C2: between clears the underlying function is invoked (to a result) at
\* most once per hashable cache key, for f and for bound calls of add, and a
\* call that returns without invoking it returns the value stored under the
\* key by the one call that did.
C2_ComputedOncePerKey ==
  /\ \A o \in Objs, k \in MKeys : computed[o][k] <= 1
  /\ \A k \in FKeys : fcomputed[k] <= 1
  /\ (last.op = "call" /\ last.exc = NoExc /\ Hashable(last.arg))
       => /\ MethodKey(last.arg) \in DOMAIN cache[last.obj].map
          /\ last.val = cache[last.obj].map[MethodKey(last.arg)]
          /\ computed[last.obj][MethodKey(last.arg)] = 1
  /\ (last.op = "fcall" /\ last.exc = NoExc /\ KeyHashable(LastFnKey))
       => /\ LastFnKey \in DOMAIN fcache
          /\ last.val = fcache[LastFnKey]
          /\ fcomputed[LastFnKey] = 1

\* C2 witness: a bound call answered from the cache, while f has a cached
\* result as well.
C2_Witness ==
  /\ last.op = "call" /\ last.exc = NoExc /\ last.n = 0
  /\ computed[last.obj][MethodKey(last.arg)] = 1
  /\ \E k \in FKeys : fcomputed[k] = 1 /\ k \in DOMAIN fcache

\* C3: the instance's method cache is empty right after a Memparams slot on
\* it is set or deleted, whether or not the delete signals an error.
C3_CacheEmptyAfterSetOrDelete ==
  last.op \in {"set", "delete"} => IsEmptyCache(last.obj)

\* C4: clear_cache(A) on a friend graph where A is host of B and B is host
\* of A terminates (returns without error), with both caches cleared.
C4_CyclicClearTerminates ==
  \A b \in Objs :
    (last.op = "clear" /\ b # last.obj
       /\ b \in Succ(last.obj) /\ last.obj \in Succ(b))
      => last.exc = NoExc /\ IsEmptyCache(last.obj) /\ IsEmptyCache(b)

\* C5: one cascading clear clears the cache of every instance at most once,
\* however many friend-edge paths lead to it; stated here for the graphs
\* without a cycle, such as the diamond (the cyclic ones are C4's).
C5_ClearedAtMostOnce ==
  (last.op \in {"clear", "set", "proxy"} /\ AcyclicFrom(last.obj))
    => \A o \in Objs : cleared[o] <= 1

\* C6: when clear_cache, a slot write or a mutating operation on a stored
\* proxy clears an instance's cache and the friend graph reachable from it
\* is acyclic, the operation returns with the cache of the instance and of
\* every instance reachable over friend edges empty.
C6_CascadeReachesFriends ==
  ( /\ \/ last.op \in {"clear", "set"}
       \/ last.op = "proxy" /\ Wrapped("set", last.name)
    /\ AcyclicFrom(last.obj) )
    => /\ last.exc = NoExc
       /\ \A r \in {last.obj} \cup Reach(last.obj) : IsEmptyCache(r)

\* C6 witness: a mutating operation on a stored proxy has cleared the cache
\* of an instance that is a friend of a friend, and not a friend, of the
\* owner.
C6_Witness ==
  /\ last.op = "proxy" /\ Wrapped("set", last.name)
  /\ AcyclicFrom(last.obj)
  /\ \E b \in Succ(last.obj) : \E c \in Succ(b) :
       c \notin Succ(last.obj) /\ cleared[c] = 1 /\ cleared[b] = 1

\* C7: a memoized method called in unbound form returns the underlying
\* method's result, computed afresh, and leaves every cache as it was.
C7_UnboundCallBypassesCache ==
  [][ last'.op = "unbound"
        => /\ cache' = cache
           /\ last'.n = 1
           /\ [exc |-> last'.exc, val |-> last'.val]
                = MethodOutcome(storage'[last'.obj], last'.arg) ]_vars

\* C7 witness: an unbound call went to the underlying method although a
\* bound call had cached a value for the same arguments.
C7_Witness ==
  /\ last.op = "unbound" /\ last.n = 1 /\ last.exc = NoExc
  /\ MethodKey(last.arg) \in DOMAIN cache[last.obj].map

\* C8: a call with an unhashable argument invokes the underlying function
\* exactly once, ends as the underlying function ends (no exception of the
\* hashing reaches the caller) and stores nothing: no cache ever holds a key
\* with an unhashable value.
C8_UnhashableFallsBack ==
  /\ (last.op = "call" /\ ~Hashable(last.arg))
       => /\ last.n = 1
          /\ LastOutcome = MethodOutcome(storage[last.obj], last.arg)
  /\ (last.op = "fcall" /\ ~KeyHashable(LastFnKey))
       => /\ last.n = 1
          /\ LastOutcome = FnOutcome(LastFnKey)
  /\ \A o \in Objs : \A k \in DOMAIN cache[o].map : KeyHashable(k[2])
  /\ \A k \in DOMAIN fcache : KeyHashable(k)

\* C8 witness: a bound call with a list argument returned a value while the
\* cache of the instance holds an entry of an earlier call.
C8_Witness ==
  /\ last.op = "call" /\ last.arg = ListArg /\ last.exc = NoExc
  /\ cache[last.obj].map # EmptyMap

\* C9: when the underlying function raises, the caller gets that exception,
\* the underlying function was invoked, and no entry is stored for the key,
\* so that the next call with the key invokes it again.
C9_ExceptionsPropagateUncached ==
  /\ (last.op = "call" /\ last.exc # NoExc)
       => /\ LastOutcome = MethodOutcome(storage[last.obj], last.arg)
          /\ last.n >= 1
          /\ MethodKey(last.arg) \notin DOMAIN cache[last.obj].map
  /\ (last.op = "fcall" /\ last.exc # NoExc)
       => /\ LastOutcome = FnOutcome(LastFnKey)
          /\ last.n >= 1
          /\ LastFnKey \notin DOMAIN fcache
  /\ \A k \in DOMAIN fcache : FnOutcome(k).exc = NoExc
  /\ \A o \in Objs : MethodKey(NoneArg) \notin DOMAIN cache[o].map

\* C9 witness: f raised ZeroDivisionError for a hashable key while another
\* key is cached.
C9_Witness ==
  /\ last.op = "fcall" /\ last.exc = "ZeroDivisionError"
  /\ KeyHashable(LastFnKey)
  /\ fcache # EmptyMap

\* C10: f.clear_cache() leaves the cache empty, and a call with a key that
\* was cached before the clear invokes the underlying function again.
C10_ClearForcesRecompute ==
  /\ last.op = "fclear" => fcache = EmptyMap
  /\ (last.op = "fcall" /\ last.again) => last.n >= 1

\* C10 witness: a key cached before the clear was called after it and
\* computed anew.
C10_Witness ==
  last.op = "fcall" /\ last.again /\ last.exc = NoExc /\ last.n = 1

C12_DeleteRemovesValue ==
  [][ (last'.op = "delete"
         /\ SlotGet(storage[last'.obj], last'.name).exc = NoExc)
        => /\ last'.exc = NoExc
           /\ SlotGet(storage'[last'.obj], last'.name).exc = "AttributeError" ]_vars

\* C13: deleting a Memparams slot that holds no value on the instance,
\* an instance without any slot storage included, signals an
\* attribute-access failure (AttributeError) to the caller.
C13_DeleteUnsetSignalsNotSet ==
  [][ (last'.op = "delete"
         /\ SlotGet(storage[last'.obj], last'.name).exc # NoExc)
        => last'.exc = "AttributeError" ]_vars

\* C14: unregister_friend(host, friend) signals an error whenever host has
\* no edge to friend, a host that never registered a friend included; when
\* the edge exists it is removed and no error is signalled.
C14_UnregisterSignalsMissingEdge ==
  [][ last'.op = "unregister"
        => LET host == last'.obj
               friend == last'.arg
           IN  IF friends[host].has /\ friend \in friends[host].set
               THEN /\ last'.exc = NoExc
                    /\ friends'[host].set = friends[host].set \ {friend}
               ELSE last'.exc # NoExc ]_vars

\* C15: after unregister_friend(host, friend) host has no edge to friend,
\* and clear_cache(host) leaves alone the cache of every instance that no
\* path of friend edges leads to; after register_friend(host, friend) the
\* edge is there again, and clear_cache(host) empties the cache of every
\* friend of host.
C15_UnregisterStopsCascade ==
  [][ /\ last'.op = "unregister"
           => ~(friends'[last'.obj].has /\ last'.arg \in friends'[last'.obj].set)
      /\ (last'.op = "register" /\ last'.arg # last'.obj)
           => friends'[last'.obj].has /\ last'.arg \in friends'[last'.obj].set
      /\ last'.op = "clear"
           => /\ \A o \in Objs \ ({last'.obj} \cup Reach(last'.obj)) :
                   cache'[o] = cache[o]
              /\ \A o \in Succ(last'.obj) : cache'[o].map = EmptyMap ]_vars

\* C16: register_friend(host, friend) adds friend to the friend set of host
\* and changes nothing else: the friend set of every other instance, friend
\* included, is as before, and so are the caches and the slots;
\* register_friend(host, host) changes nothing at all.
C16_RegisterAddsOneEdge ==
  [][ last'.op = "register"
        => LET host == last'.obj
               friend == last'.arg
           IN  /\ \A o \in Objs \ {host} : friends'[o] = friends[o]
               /\ cache' = cache /\ storage' = storage
               /\ last'.exc = NoExc
               /\ IF friend = host
                  THEN friends' = friends
                  ELSE friends'[host] =
                         [has |-> TRUE, set |-> friends[host].set \cup {friend}] ]_vars

\* C16 witness: host has registered friend, friend has a friend set of its
\* own and host is not in it.
C16_Witness ==
  /\ last.op = "register" /\ last.arg # last.obj
  /\ last.arg \in Succ(last.obj)
  /\ friends[last.arg].has /\ Succ(last.arg) # {}
  /\ last.obj \notin Succ(last.arg)

\* C19: clear_cache(receiver) empties the cache of the receiver, raises no
\* error when the receiver has no cache attribute, and leaves as they were
\* the cache of every instance that no path of friend edges leads to from
\* the receiver, every slot value and the friend graph.
C19_ClearCacheFrame ==
  [][ last'.op = "clear"
        => /\ cache'[last'.obj].map = EmptyMap
           /\ ~cache[last'.obj].has => last'.exc = NoExc
           /\ \A o \in Objs \ ({last'.obj} \cup Reach(last'.obj)) :
                cache'[o] = cache[o]
           /\ storage' = storage
           /\ friends' = friends ]_vars

\* C20: a bound call with an unhashable argument leaves the entries of the
\* receiver's cache as they are, and the cache goes on working whatever
\* calls came before: a call with a cached key returns the stored value
\* without invoking the method, a call with a hashable key not yet cached
\* that returns a value stores it.  No call touches another instance's cache.
C20_UnhashableLeavesCacheUsable ==
  [][ last'.op = "call"
        => LET o == last'.obj
               key == MethodKey(last'.arg)
           IN  /\ \A p \in Objs \ {o} : cache'[p] = cache[p]
               /\ ~Hashable(last'.arg)
                    => cache'[o].map = cache[o].map /\ computed' = computed
               /\ (Hashable(last'.arg) /\ key \in DOMAIN cache[o].map)
                    => /\ last'.n = 0
                       /\ last'.exc = NoExc
                       /\ last'.val = cache[o].map[key]
                       /\ cache'[o] = cache[o]
               /\ (Hashable(last'.arg) /\ key \notin DOMAIN cache[o].map
                     /\ last'.exc = NoExc)
                    => /\ key \in DOMAIN cache'[o].map
                       /\ cache'[o].map[key] = last'.val ]_vars

\* C20 witness: a bound call with a list argument has invoked the method
\* on a receiver whose cache keeps the entry an earlier call with a
\* hashable argument computed.
C20_Witness ==
  /\ last.op = "call" /\ last.arg = ListArg /\ last.n = 1
  /\ MethodKey(0) \in DOMAIN cache[last.obj].map
  /\ computed[last.obj][MethodKey(0)] = 1
  /\ last.val = cache[last.obj].map[MethodKey(0)]

\* C17: entries of different memoized methods do not collide in the
\* instance's cache: a bound call of the overriding or of the overridden
\* add that returns a value returns the value of its own underlying
\* function.  (Slots change by assignment only here, which clears the
\* cache, so every entry is what its method computes now, and a returned
\* value of the other method can only come from the other method's entry.)
C17_NoCollisionBetweenMethods ==
  (last.op \in {"override", "super"} /\ last.exc = NoExc)
    => LastOutcome = UnderlyingOutcome(last.name, storage[last.obj], last.arg)

\* C18: obj.slot = v stores a new object with the elements of v, not v: the
\* slot reads back equal to v right after the assignment, and a mutation of
\* v through the caller's reference changes no slot value and no cache.
C18_StoredValueIsFreshCopy ==
  [][ /\ last'.op = "assign"
           => /\ SlotGet(storage'[last'.obj], last'.name).val = held.val
              /\ last'.obj \notin held'.same
      /\ last'.op = "mutate" => storage' = storage /\ cache' = cache ]_vars

\* C18 witness: v was assigned to the slot of an instance, a bound call
\* filled the instance's cache, and v.add(e) through the caller's reference
\* then made v differ from the slot.
C18_Witness ==
  /\ last.op = "mutate" /\ last.name = "add"
  /\ \E o \in held.given :
       /\ SlotGet(storage[o], "p").exc = NoExc
       /\ SlotGet(storage[o], "p").val # held.val
       /\ cache[o].map # EmptyMap

\* C21: descriptors declared with the same (base, name) share one storage
\* location per instance: right after a write through one of them a read
\* through each of them returns the value just written, whatever was
\* written before and through whichever descriptor.
C21_SameKeySharesStorage ==
  [][ last'.op = "assign"
        => \A d \in Descs :
             (Base(d) = Base(last'.name) /\ Name(d) = Name(last'.name))
               => SlotGet(storage'[last'.obj], d) = [exc |-> NoExc, val |-> held.val] ]_vars

\* C21 witness: the slot was written through q, on an instance whose cache
\* an earlier call had created, and a read through p returns the value
\* written through q, which is not the empty set.
C21_Witness ==
  /\ last.op = "assign" /\ last.name = "q"
  /\ held.val # {}
  /\ cleared[last.obj] = 1
  /\ SlotGet(storage[last.obj], "p") = [exc |-> NoExc, val |-> held.val]

\* C22: a method of a stored value whose name is not in Mutators.names
\* (here the length of the stored set) returns without error and leaves the
\* cache of every instance, the owner and its friends included, and the
\* friend graph as they were.
C22_NonMutatorsKeepCaches ==
  [][ (last'.op = "proxy" /\ last'.name \notin MutatorNames)
        => /\ cache' = cache
           /\ friends' = friends
           /\ last'.exc = NoExc ]_vars

\* C22 witness: len() was taken of the stored value of an instance while
\* its cache and the cache of one of its friends held entries.
C22_Witness ==
  /\ last.op = "proxy" /\ last.name = "__len__"
  /\ cache[last.obj].map # EmptyMap
  /\ \E fr \in Succ(last.obj) : cache[fr].map # EmptyMap

\* C23: copying or serializing a stored value changes nothing on the
\* instances, rebuilds a new storage object of the same base type around a
\* plain copy of the current value, and what __reduce__ returns refers to no
\* instance: the owner is not part of it.
C23_ReduceOmitsOwner ==
  [][ last'.op = "reduce"
        => LET cur == SlotGet(storage[last'.obj], last'.name).val
               red == Reduce(Base(last'.name), last'.obj, cur)
           IN  /\ storage' = storage /\ cache' = cache
               /\ red.args.base = Base(last'.name)
               /\ MemparamStorage(red.args.base, red.args.value)
                    = [val |-> cur, fresh |-> TRUE]
               /\ last'.arg2 \notin Objs ]_vars

\* C24: one call of the memoize_function wrapper or of a bound
\* memoize_method wrapper invokes the underlying function at most once,
\* whatever the function returns or raises.
C24_InvokedAtMostOnce ==
  last.op \in {"call", "fcall"} => last.n <= 1

\* The value a call of f(a, b=1) binds to parameter n: the keyword argument
\* of that name, else the positional argument at the parameter's place,
\* else the default.
ParamValue(c, n) ==
  LET pos == IF n = "a" THEN 1 ELSE 2
  IN  IF n \in DOMAIN c.kw THEN c.kw[n]
      ELSE IF Len(c.args) >= pos THEN c.args[pos]
      ELSE 1

\* C25: the cache entry a call of f uses is given by the values the call
\* binds to the parameters a and b: in every state a call with hashable
\* values is answered from the cache exactly if an entry for its binding is
\* stored, however the values are passed (by position, by keyword in any
\* order, or left to the default), and it is answered with that entry.
C25_KeyIsBinding ==
  \A c \in FnCalls :
    LET bd == [a |-> ParamValue(c, "a"), b |-> ParamValue(c, "b")]
        r == FunctionCall(fcache, c)
    IN  (Hashable(bd.a) /\ Hashable(bd.b))
          => /\ r.n = 0 <=> bd \in DOMAIN fcache
             /\ r.n = 0 => r.out = [exc |-> NoExc, val |-> fcache[bd]]

\* C25 witness: a call computed and stored a result, and both a positional
\* call that leaves b to its default and a call that passes b and a by
\* keyword would now be answered from that entry.
C25_Witness ==
  /\ last.op = "fcall" /\ last.n = 1 /\ last.exc = NoExc
  /\ LastFnKey \in DOMAIN fcache
  /\ \E c1 \in FnCalls, c2 \in FnCalls :
       /\ Len(c1.args) = 1 /\ DOMAIN c1.kw = {}
       /\ Len(c2.args) = 0 /\ DOMAIN c2.kw = {"a", "b"}
       /\ GetCallArgs(c1) = LastFnKey /\ GetCallArgs(c2) = LastFnKey
       /\ FunctionCall(fcache, c1).n = 0 /\ FunctionCall(fcache, c2).n = 0

Next ==
  \/ \E o \in Objs, x \in Addends : BoundCall(o, x)
  \/ \E o \in Objs, x \in Addends : UnboundCall(o, x)
  \/ \E o \in Objs, x \in Addends : OverrideCall(o, x)
  \/ \E o \in Objs, x \in Addends : SuperCall(o, x)
  \/ \E o \in Objs : ClearCacheOp(o)
  \/ \E o \in Objs, d \in Descs, v \in SlotVals : SlotSet(o, d, v)
  \/ \E o \in Objs, d \in Descs : SlotSetHeld(o, d)
  \/ \E name \in HeldOps, e \in Elems : HeldMutate(name, e)
  \/ \E o \in Objs, d \in Descs : SlotDelete(o, d)
  \/ \E o \in Objs, d \in Descs : ProxyReduce(o, d)
  \/ \E o \in Objs, d \in Descs, name \in ProxyOps, e \in Elems : ProxyCall(o, d, name, e)
  \/ \E h \in Objs, fr \in Objs : RegisterFriend(h, fr)
  \/ \E h \in Objs, fr \in Objs : UnregisterFriend(h, fr)
  \/ \E c \in FnCalls : FnCall(c)
  \/ FnClear

\* The whole program: every operation on every instance.
Spec == Init /\ [][Next]_vars

\* The calls, the slots and the stored values on instances that register no
\* friend, together with the memoized function.
NextCalls ==
  \/ \E o \in CallObjs, x \in Addends : BoundCall(o, x)
  \/ \E o \in CallObjs, x \in Addends : UnboundCall(o, x)
  \/ \E o \in CallObjs : ClearCacheOp(o)
  \/ \E o \in CallObjs, d \in Descs, v \in SlotVals : SlotSet(o, d, v)
  \/ \E o \in CallObjs, d \in Descs : SlotDelete(o, d)
  \/ \E o \in CallObjs, d \in Descs, name \in ProxyOps, e \in Elems : ProxyCall(o, d, name, e)
  \/ \E c \in FnCalls : FnCall(c)
  \/ FnClear

SpecCalls == Init /\ [][NextCalls]_vars

\* The state after construction of instances whose __init__ assigns
\* self.p = set(): the slot is stored, and clear_cache found nothing to clear.
InitConstructed ==
  /\ storage = [o \in Objs |->
                  [has |-> TRUE, map |-> [k \in {DescKey("p")} |-> {}]]]
  /\ cache = [o \in Objs |-> [has |-> FALSE, map |-> EmptyMap]]
  /\ friends = [o \in Objs |-> [has |-> FALSE, set |-> {}]]
  /\ fcache = EmptyMap
  /\ computed = [o \in Objs |-> [k \in MKeys |-> 0]]
  /\ fcomputed = [k \in FKeys |-> 0]
  /\ fdropped = {}
  /\ cleared = ZeroCounts
  /\ last = Op("init", 0, 0, 0, "", NoOut, 0)
  /\ held = [val |-> {}, given |-> {}, same |-> {}]

\* The friend graph over such instances, with the operations that fill and
\* clear their caches.
NextFriends ==
  \/ \E o \in Objs : BoundCall(o, 0)
  \/ \E o \in Objs : ClearCacheOp(o)
  \/ \E o \in Objs : SlotSet(o, "p", {})
  \/ \E o \in Objs, name \in {"discard", "__len__"} : ProxyCall(o, "p", name, 1)
  \/ \E h \in Objs, fr \in Objs : RegisterFriend(h, fr)
  \/ \E h \in Objs, fr \in Objs : UnregisterFriend(h, fr)

SpecFriends == InitConstructed /\ [][NextFriends]_vars

\* Instances of the subclass Sub: bound calls of the overriding and of the
\* overridden add, slot assignments and clear_cache.
NextOverride ==
  \/ \E o \in CallObjs, x \in Addends : OverrideCall(o, x)
  \/ \E o \in CallObjs, x \in Addends : SuperCall(o, x)
  \/ \E o \in CallObjs, v \in SlotVals : SlotSet(o, "p", v)
  \/ \E o \in CallObjs : ClearCacheOp(o)

SpecOverride == Init /\ [][NextOverride]_vars

\* A caller that keeps a reference to the set it assigns to the slots: the
\* assignments, the caller's own mutations and the bound calls.
NextAlias ==
  \/ \E o \in CallObjs, d \in Descs : SlotSetHeld(o, d)
  \/ \E name \in HeldOps, e \in Elems : HeldMutate(name, e)
  \/ \E o \in CallObjs : BoundCall(o, 0)
  \/ \E o \in CallObjs, d \in Descs : ProxyReduce(o, d)
  \/ \E o \in CallObjs, e \in Elems : ProxyCall(o, "p", "discard", e)

SpecAlias == Init /\ [][NextAlias]_vars

====
